---- MODULE Spec2Model ----
(***************************************************************************)
(* A model of the llm command-line client's core:                          *)
(*   - remove_pref (src/llm/utils.py), the streaming generator that puts   *)
(*     a prefill in front of a chunked stream unless the stream already    *)
(*     starts with it;                                                     *)
(*   - Template.evaluate / Template.interpolate (src/llm/templates.py).    *)
(*                                                                         *)
(* A Python str is a sequence of one-character strings.  A Python value    *)
(* that travels through the chunk stream is a record [isstr, val]: a str   *)
(* (isstr = TRUE) or an object that is not a str and carries text that     *)
(* only the caller's preproc can extract (isstr = FALSE).                  *)
(***************************************************************************)
EXTENDS Integers, Naturals, Sequences, FiniteSets, TLC

VARIABLES
    p,          \* remove_pref's argument p: the prefill (a str)
    r,          \* remove_pref's argument r: the chunk source, as the chunks it will deliver
    store,      \* remove_pref's argument store: [given, items]
    store0,     \* the items the store held when remove_pref was called
    preproc,    \* remove_pref's argument preproc: TRUE when a callable is supplied
    buffer,     \* local buffer
    has_pre,    \* local has_pre
    pos,        \* the iterator ir: how many chunks it has delivered
    pc,         \* where the generator's frame stands
    ctl,        \* who runs: the consumer or the generator
    out,        \* the values the generator has yielded so far, in order
    srcErr,     \* the exception the chunk source raised, or NoError
    err,        \* the exception that reached the consumer, or NoError
    tpl,        \* Template.evaluate's self: [prompt, system, defaults]
    input,      \* Template.evaluate's argument input
    argParams,  \* the dict the caller passed as params, as the caller sees it
    params,     \* Template.evaluate's local params
    tpc,        \* where Template.evaluate stands
    result,     \* [prompt, system]: what evaluate has computed so far
    tplErr,     \* the exception evaluate raised, or NoError
    params0,    \* the entries the caller's dict held when evaluate was called
    tplOptions, \* Template.evaluate_options' self.options: None or an ordered dict
    optArg,     \* Template.evaluate_options' argument options: None or a tuple of pairs
    optRet,     \* what evaluate_options returned
    opc,        \* where evaluate_options stands
    log,        \* the rows of the log table, in id order
    history,    \* prompt's local history: the rows get_history returned
    messages,   \* prompt's local messages
    chat,       \* prompt's local chat_id after get_history
    kind,       \* how the latest prompt command was run
    db,         \* TRUE when log.db exists
    req         \* the latest prompt command's arguments and how it ended

genVars == <<p, r, store, store0, preproc, buffer, has_pre, pos, pc, ctl, out, srcErr, err>>
tplVars == <<tpl, input, argParams, params, tpc, result, tplErr, params0>>
optVars == <<tplOptions, optArg, optRet, opc>>
histVars == <<log, history, messages, chat, kind, db, req>>
vars == <<genVars, tplVars, optVars, histVars>>

----------------------------------------------------------------------------
(* Bounds of the model. *)

MaxPLen == 2
MaxChunks == 3
MaxStreamLen == 3

Alphabet == {"a", " "}
Whitespace == {" ", "\t", "\n", "\r"}

NoError == "NoError"
SourceErrors == {"ReadTimeout"}

----------------------------------------------------------------------------
(* Python values and str operations. *)

Str(s) == [isstr |-> TRUE, val |-> s]
Obj(s) == [isstr |-> FALSE, val |-> s]

\* str.startswith
StartsWith(s, pre) ==
    /\ Len(pre) <= Len(s)
    /\ SubSeq(s, 1, Len(pre)) = pre

\* s[:n]
Take(s, n) == SubSeq(s, 1, IF n < Len(s) THEN n ELSE Len(s))

\* s[n:]
Drop(s, n) == SubSeq(s, n + 1, Len(s))

\* A variant of EndsInSpace: nothing counts as ending in whitespace.
EndsInSpaceNever(s) == FALSE

\* re.search(r'\s$', s): a whitespace character at the end of s, or just
\* before a newline that ends s.
EndsInSpace(s) ==
    \E i \in 1..Len(s) :
        /\ s[i] \in Whitespace
        /\ \/ i = Len(s)
           \/ i = Len(s) - 1 /\ s[Len(s)] = "\n"

\* every value of the sequence is a str
AllStr(vs) == \A i \in 1..Len(vs) : vs[i].isstr

\* The caller's preproc: extracts the text an object carries.
Preproc(x) == Str(x.val)

\* preproc and not isinstance(x, str)
Decoded(x) == IF preproc /\ ~x.isstr THEN Preproc(x) ELSE x

\* A variant of StoreAppend: the chunk is recorded after the decode step.
StoreAppendDecoded(st, x) ==
    IF st.given THEN [st EXCEPT !.items = Append(@, Decoded(x))] ELSE st

\* store.append(x) under "if store is not None"
StoreAppend(st, x) ==
    IF st.given THEN [st EXCEPT !.items = Append(@, x)] ELSE st

\* A variant of Propagate: the generator swallows the exception.
PropagateNothing(e) == NoError

\* An exception of the chunk source passes through the generator's frame,
\* which has no try/except around the pull.
Propagate(e) == e

----------------------------------------------------------------------------
(* remove_pref: the inputs. *)

Strs(n) == UNION {[1..k -> Alphabet] : k \in 0..n}

RECURSIVE TotalLen(_)
TotalLen(cs) == IF cs = <<>> THEN 0 ELSE Len(Head(cs).val) + TotalLen(Tail(cs))

RECURSIVE TextStreamsOf(_)
TextStreamsOf(k) ==
    IF k = 0 THEN {<<>>}
    ELSE LET shorter == TextStreamsOf(k - 1)
         IN  shorter \cup
             {Append(pair[1], Str(pair[2])) : pair \in
                 {q \in shorter \X Strs(MaxStreamLen) :
                     /\ Len(q[1]) = k - 1
                     /\ TotalLen(q[1]) + Len(q[2]) <= MaxStreamLen}}

\* A source delivers str chunks, or objects that are not str (every chunk
\* of the stream is of the one kind).
AsObjects(cs) == [i \in 1..Len(cs) |-> Obj(cs[i].val)]
TextStreams == TextStreamsOf(MaxChunks)
Streams == TextStreams \cup {AsObjects(cs) : cs \in TextStreams}
Prefills == Strs(MaxPLen)

\* The scenarios of the documentation, spelled out.
TheAnswerIs == <<"T","h","e"," ","a","n","s","w","e","r"," ","i","s">>
Space42 == <<" ","4","2",".">>
Hello == <<"H","e","l","l","o">>
GoodbyeWorld == <<"G","o","o","d","b","y","e"," ","w","o","r","l","d">>
Abcdef == <<"a","b","c","d","e","f">>
Abc == <<"a","b","c">>
Def == <<"d","e","f">>
Ghi == <<"g","h","i">>

ScenarioA == [p |-> TheAnswerIs, r |-> <<Str(Space42)>>]
ScenarioB == [p |-> Hello, r |-> <<Str(GoodbyeWorld)>>]
ScenarioC == [p |-> Abcdef, r |-> <<Str(Abc), Str(Def), Str(Ghi)>>]

Inputs ==
    {[p |-> q, r |-> cs] : q \in Prefills, cs \in Streams}
        \cup {ScenarioA, ScenarioB, ScenarioC}

\* What a caller's store may already hold.
Earlier == <<Str(<<"z">>)>>
StoreArgs ==
    {[given |-> FALSE, items |-> <<>>],
     [given |-> TRUE, items |-> <<>>],
     [given |-> TRUE, items |-> Earlier]}

----------------------------------------------------------------------------
(* remove_pref: the generator. *)

\* A variant of FullMatch: the buffer must equal p.
FullMatchExact(buf) == buf = p

\* line 128: buffer.startswith(p)
FullMatch(buf) == StartsWith(buf, p)

\* Variants of NonMatch: give up unless the buffer already holds p; never
\* give up.
NonMatchHasty(buf) == ~StartsWith(buf, p)
NonMatchNever(buf) == FALSE

\* A variant of NonMatch: gives up only once the buffer is longer than p.
NonMatchWhenLonger(buf) == Len(buf) > Len(p) /\ ~StartsWith(p, Take(buf, Len(p) + 1))

\* line 132: not p.startswith(buffer[:len(p)+1])
NonMatch(buf) == ~StartsWith(p, Take(buf, Len(p) + 1))

\* Variants of NeedsSep: no separator at all; has_pre ignored.
NeedsSepNever == FALSE
NeedsSepAnyway == ~EndsInSpace(p)

\* line 139: not has_pre and not re.search(r'\s$', p)
NeedsSep == ~has_pre /\ ~EndsInSpace(p)

\* A variant of Exhausted: the iteration stops one chunk early.
ExhaustedEarly == pos + 1 >= Len(r)

\* lines 124, 141: "for x in ir" finds ir exhausted
Exhausted == pos = Len(r)

\* The generator object exists; none of its body has run (lines 121-123
\* run on the first request).
GenInit ==
    /\ \E i \in Inputs : p = i.p /\ r = i.r
    /\ store \in StoreArgs
    /\ store0 = store.items
    /\ preproc \in BOOLEAN
    /\ buffer = <<>>
    /\ has_pre = FALSE
    /\ pos = 0
    /\ pc = "created"
    /\ ctl = "consumer"
    /\ out = <<>>
    /\ srcErr = NoError
    /\ err = NoError

Finished == pc \in {"done", "failed", "closed"}

\* The consumer asks for the next segment: next(g).
Request ==
    /\ ctl = "consumer"
    /\ ~Finished
    /\ ctl' = "generator"
    /\ pc' = IF pc = "created" THEN "lookahead" ELSE pc
    /\ UNCHANGED <<p, r, store, store0, preproc, buffer, has_pre, pos, out, srcErr, err>>
    /\ UNCHANGED <<tplVars, optVars, histVars>>

\* A variant of Close: giving the generator up drains the source.
CloseDrains ==
    /\ ctl = "consumer"
    /\ ~Finished
    /\ pc' = "closed"
    /\ pos' = Len(r)
    /\ UNCHANGED <<p, r, store, store0, preproc, buffer, has_pre, ctl, out, srcErr, err>>
    /\ UNCHANGED <<tplVars, optVars, histVars>>

\* The consumer gives the generator up: g.close(), or the last reference
\* to it goes away.  GeneratorExit is raised at the yield where the frame
\* is suspended; no statement of the body handles it.
Close ==
    /\ ctl = "consumer"
    /\ ~Finished
    /\ pc' = "closed"
    /\ UNCHANGED <<p, r, store, store0, preproc, buffer, has_pre, pos, ctl, out, srcErr, err>>
    /\ UNCHANGED <<tplVars, optVars, histVars>>

\* The chunk source raises instead of delivering a chunk or ending.
SourceRaises ==
    /\ ctl = "generator"
    /\ pc \in {"lookahead", "pass"}
    /\ \E e \in SourceErrors :
        /\ srcErr' = e
        /\ err' = Propagate(e)
    /\ pc' = "failed"
    /\ ctl' = "consumer"
    /\ UNCHANGED <<p, r, store, store0, preproc, buffer, has_pre, pos, out>>
    /\ UNCHANGED <<tplVars, optVars, histVars>>

\* Lines 124-135: one turn of "for x in ir" in the lookahead loop.
Lookahead ==
    /\ ctl = "generator"
    /\ pc = "lookahead"
    /\ IF Exhausted
       THEN \* the source is exhausted: the loop ends
            /\ pc' = "yield_p"
            /\ UNCHANGED <<store, buffer, has_pre, pos, ctl, err>>
       ELSE LET x == r[pos + 1]
                y == Decoded(x)
            IN  /\ pos' = pos + 1
                /\ store' = StoreAppend(store, x)
                /\ IF ~y.isstr
                   THEN \* buffer += x with x not a str
                        /\ err' = "TypeError"
                        /\ pc' = "failed"
                        /\ ctl' = "consumer"
                        /\ UNCHANGED <<buffer, has_pre>>
                   ELSE LET buf == buffer \o y.val
                        IN  /\ IF FullMatch(buf)
                               THEN /\ buffer' = Drop(buf, Len(p))
                                    /\ has_pre' = TRUE
                                    /\ pc' = "yield_p"
                               ELSE /\ buffer' = buf
                                    /\ has_pre' = has_pre
                                    /\ pc' = IF NonMatch(buf) THEN "yield_p" ELSE "lookahead"
                            /\ UNCHANGED <<ctl, err>>
    /\ UNCHANGED <<p, r, store0, preproc, out, srcErr>>
    /\ UNCHANGED <<tplVars, optVars, histVars>>

\* Line 136: yield p
YieldP ==
    /\ ctl = "generator"
    /\ pc = "yield_p"
    /\ out' = Append(out, Str(p))
    /\ pc' = "sep"
    /\ ctl' = "consumer"
    /\ UNCHANGED <<p, r, store, store0, preproc, buffer, has_pre, pos, srcErr, err>>
    /\ UNCHANGED <<tplVars, optVars, histVars>>

\* Line 139: yield ' '
YieldSep ==
    /\ ctl = "generator"
    /\ pc = "sep"
    /\ NeedsSep
    /\ out' = Append(out, Str(<<" ">>))
    /\ pc' = "rest"
    /\ ctl' = "consumer"
    /\ UNCHANGED <<p, r, store, store0, preproc, buffer, has_pre, pos, srcErr, err>>
    /\ UNCHANGED <<tplVars, optVars, histVars>>

\* A variant of YieldBuffer: an empty buffer is not yielded.
YieldBufferIfAny ==
    /\ ctl = "generator"
    /\ \/ pc = "rest"
       \/ pc = "sep" /\ ~NeedsSep
    /\ out' = IF buffer = <<>> THEN out ELSE Append(out, Str(buffer))
    /\ pc' = "pass"
    /\ ctl' = IF buffer = <<>> THEN ctl ELSE "consumer"
    /\ UNCHANGED <<p, r, store, store0, preproc, buffer, has_pre, pos, srcErr, err>>
    /\ UNCHANGED <<tplVars, optVars, histVars>>

\* Line 140: yield buffer
YieldBuffer ==
    /\ ctl = "generator"
    /\ \/ pc = "rest"
       \/ pc = "sep" /\ ~NeedsSep
    /\ out' = Append(out, Str(buffer))
    /\ pc' = "pass"
    /\ ctl' = "consumer"
    /\ UNCHANGED <<p, r, store, store0, preproc, buffer, has_pre, pos, srcErr, err>>
    /\ UNCHANGED <<tplVars, optVars, histVars>>

\* Lines 141-144: one turn of the pass-through loop.
Pass ==
    /\ ctl = "generator"
    /\ pc = "pass"
    /\ IF Exhausted
       THEN \* the source is exhausted: the generator returns
            /\ pc' = "done"
            /\ UNCHANGED <<store, pos, out>>
       ELSE LET x == r[pos + 1]
            IN  /\ pos' = pos + 1
                /\ store' = StoreAppend(store, x)
                /\ out' = Append(out, Decoded(x))
                /\ pc' = "pass"
    /\ ctl' = "consumer"
    /\ UNCHANGED <<p, r, store0, preproc, buffer, has_pre, srcErr, err>>
    /\ UNCHANGED <<tplVars, optVars, histVars>>

----------------------------------------------------------------------------
(* Template: values, patterns and dicts. *)

MaxPatLen == 2

\* Optional[str]: None, or a str
NoneVal == [none |-> TRUE, val |-> <<>>]
Some(s) == [none |-> FALSE, val |-> s]

\* A pattern is None or a text; the text is kept as the tokens
\* string.Template's pattern finds in it, each with the text before it folded
\* into a token of its own:
\*   lit      a stretch of plain text
\*   named    $name
\*   braced   ${name}
\*   escaped  $$
Lit(t) == [kind |-> "lit", name |-> "", text |-> t]
Named(n) == [kind |-> "named", name |-> n, text |-> <<>>]
Braced(n) == [kind |-> "braced", name |-> n, text |-> <<>>]
Escaped == [kind |-> "escaped", name |-> "", text |-> <<>>]

NonePattern == [none |-> TRUE, toks |-> <<>>]
Pattern(ts) == [none |-> FALSE, toks |-> ts]

\* A variant of Truthy: only None counts as absent.
TruthyUnlessNone(text) == ~text.none

\* Python's truth of an Optional[str]: neither None nor ""
Truthy(text) == ~text.none /\ text.toks # <<>>

\* match.group("named") of a match that is not a $name
NoneName == "<None>"

TplNoError == [type |-> "NoError", names |-> <<>>]
MissingVariables(ns) == [type |-> "MissingVariables", names |-> ns]
TplTypeError == [type |-> "TypeError", names |-> <<>>]
TplKeyError == [type |-> "KeyError", names |-> <<>>]

EmptyDict == [k \in {} |-> <<>>]

\* d[k] = v
Put(d, k, v) == [x \in (DOMAIN d) \cup {k} |-> IF x = k THEN v ELSE d[x]]

\* A variant of FillDefaults: a default replaces what params holds.
FillDefaultsWin(d, defaults) ==
    [x \in (DOMAIN d) \cup (DOMAIN defaults) |->
        IF x \in DOMAIN defaults THEN defaults[x] ELSE d[x]]

\* lines 25-28: for k, v in defaults.items(): if k not in params: params[k] = v
FillDefaults(d, defaults) ==
    [x \in (DOMAIN d) \cup (DOMAIN defaults) |->
        IF x \in DOMAIN d THEN d[x] ELSE defaults[x]]

\* lines 63-68: extract_vars: group "named" of every match of the pattern
RECURSIVE ExtractVars(_)
ExtractVars(toks) ==
    IF toks = <<>> THEN <<>>
    ELSE LET t == Head(toks)
         IN  (IF t.kind = "lit" THEN <<>>
              ELSE IF t.kind = "named" THEN <<t.name>>
              ELSE <<NoneName>>) \o ExtractVars(Tail(toks))

\* line 61: string.Template.substitute, on tokens whose names are all bound
RECURSIVE Substitute(_, _)
Substitute(toks, prm) ==
    IF toks = <<>> THEN <<>>
    ELSE LET t == Head(toks)
         IN  (IF t.kind = "lit" THEN t.text
              ELSE IF t.kind = "escaped" THEN <<"$">>
              ELSE prm[t.name]) \o Substitute(Tail(toks), prm)

\* lines 49-61: interpolate(text, params): [err, val]
Interpolate(text, prm) ==
    IF ~Truthy(text)
    THEN [err |-> TplNoError,
          val |-> IF text.none THEN NoneVal ELSE Some(<<>>)]
    ELSE LET vs == ExtractVars(text.toks)
             Absent(v) == v \notin DOMAIN prm
             missing == SelectSeq(vs, Absent)
         IN  IF missing # <<>>
             THEN \* ", ".join(missing) fails on a None
                  IF \E i \in 1..Len(missing) : missing[i] = NoneName
                  THEN [err |-> TplTypeError, val |-> NoneVal]
                  ELSE [err |-> MissingVariables(missing), val |-> NoneVal]
             ELSE IF \E i \in 1..Len(text.toks) :
                        text.toks[i].kind = "braced" /\ text.toks[i].name \notin DOMAIN prm
                  THEN [err |-> TplKeyError, val |-> NoneVal]
                  ELSE [err |-> TplNoError, val |-> Some(Substitute(text.toks, prm))]

----------------------------------------------------------------------------
(* Template.evaluate: the inputs. *)

TplTokens ==
    {Lit(<<"t">>), Named("input"), Named("foo"), Named("bar"), Braced("foo"), Escaped}

Patterns ==
    {NonePattern} \cup
        {Pattern(ts) : ts \in UNION {[1..k -> TplTokens] : k \in 0..MaxPatLen}}

DefaultsArgs == {EmptyDict, [k \in {"foo"} |-> <<"D">>]}

\* What the caller passes as params: None, {}, or a dict with entries.
ParamsArgs ==
    {[given |-> FALSE, d |-> EmptyDict],
     [given |-> TRUE, d |-> EmptyDict],
     [given |-> TRUE, d |-> [k \in {"foo"} |-> <<"F">>]],
     [given |-> TRUE, d |-> [k \in {"input", "bar"} |-> IF k = "bar" THEN <<"B">> ELSE <<"X">>]]}

InputArgs == {<<"h", "i">>, <<"$", "f", "o", "o">>}

----------------------------------------------------------------------------
(* Template.evaluate. *)

\* line 23: "params or {}" keeps the caller's dict only when it has entries
Aliased == argParams.given /\ DOMAIN argParams.d # {}

\* evaluate has been called; none of its body has run.
TplInit ==
    /\ tpl \in [prompt : Patterns, system : Patterns, defaults : DefaultsArgs]
    /\ input \in InputArgs
    /\ argParams \in ParamsArgs
    /\ params0 = argParams.d
    /\ params = EmptyDict
    /\ tpc = "called"
    /\ result = [prompt |-> NoneVal, system |-> NoneVal]
    /\ tplErr = TplNoError

\* Lines 23-30: the effective parameter set.
EvalBuildParams ==
    /\ tpc = "called"
    /\ LET local == IF Aliased THEN argParams.d ELSE EmptyDict
           effective == FillDefaults(Put(local, "input", input), tpl.defaults)
       IN  /\ params' = effective
           /\ argParams' = IF Aliased THEN [argParams EXCEPT !.d = effective]
                           ELSE argParams
    /\ tpc' = "params"
    /\ UNCHANGED <<tpl, input, result, tplErr, params0>>
    /\ UNCHANGED <<genVars, optVars, histVars>>

\* Lines 31-33: no prompt pattern: interpolate the system pattern, take the
\* input as the prompt, return.
EvalSystemOnly ==
    /\ tpc = "params"
    /\ ~Truthy(tpl.prompt)
    /\ LET s == Interpolate(tpl.system, params)
       IN  IF s.err # TplNoError
           THEN /\ tplErr' = s.err
                /\ tpc' = "raised"
                /\ UNCHANGED result
           ELSE /\ result' = [prompt |-> Some(input), system |-> s.val]
                /\ tpc' = "returned"
                /\ UNCHANGED tplErr
    /\ UNCHANGED <<tpl, input, argParams, params, params0>>
    /\ UNCHANGED <<genVars, optVars, histVars>>

\* Line 35: prompt = self.interpolate(self.prompt, params)
EvalPrompt ==
    /\ tpc = "params"
    /\ Truthy(tpl.prompt)
    /\ LET q == Interpolate(tpl.prompt, params)
       IN  IF q.err # TplNoError
           THEN /\ tplErr' = q.err
                /\ tpc' = "raised"
                /\ UNCHANGED result
           ELSE /\ result' = [result EXCEPT !.prompt = q.val]
                /\ tpc' = "prompt_done"
                /\ UNCHANGED tplErr
    /\ UNCHANGED <<tpl, input, argParams, params, params0>>
    /\ UNCHANGED <<genVars, optVars, histVars>>

\* Lines 36-37: system = self.interpolate(self.system, params); return
EvalSystem ==
    /\ tpc = "prompt_done"
    /\ LET s == Interpolate(tpl.system, params)
       IN  IF s.err # TplNoError
           THEN /\ tplErr' = s.err
                /\ tpc' = "raised"
                /\ UNCHANGED result
           ELSE /\ result' = [result EXCEPT !.system = s.val]
                /\ tpc' = "returned"
                /\ UNCHANGED tplErr
    /\ UNCHANGED <<tpl, input, argParams, params, params0>>
    /\ UNCHANGED <<genVars, optVars, histVars>>

\* No call of evaluate is under way.
TplIdle ==
    /\ tpl = [prompt |-> NonePattern, system |-> NonePattern, defaults |-> EmptyDict]
    /\ input = <<>>
    /\ argParams = [given |-> FALSE, d |-> EmptyDict]
    /\ params0 = EmptyDict
    /\ params = EmptyDict
    /\ tpc = "idle"
    /\ result = [prompt |-> NoneVal, system |-> NoneVal]
    /\ tplErr = TplNoError

\* No generator exists.
GenIdle ==
    /\ p = <<>>
    /\ r = <<>>
    /\ store = [given |-> FALSE, items |-> <<>>]
    /\ store0 = <<>>
    /\ preproc = FALSE
    /\ buffer = <<>>
    /\ has_pre = FALSE
    /\ pos = 0
    /\ pc = "idle"
    /\ ctl = "consumer"
    /\ out = <<>>
    /\ srcErr = NoError
    /\ err = NoError

----------------------------------------------------------------------------
(* Template.evaluate_options. *)

MaxOpts == 2

\* Union[float, int, str, bool]; a float is kept as its number of tenths.
IntV(n) == [type |-> "int", num |-> n, text |-> <<>>, flag |-> FALSE]
FloatV(tenths) == [type |-> "float", num |-> tenths, text |-> <<>>, flag |-> FALSE]
StrV(t) == [type |-> "str", num |-> 0, text |-> t, flag |-> FALSE]
BoolV(b) == [type |-> "bool", num |-> 0, text |-> <<>>, flag |-> b]

Digit(d) == <<"0", "1", "2", "3", "4", "5", "6", "7", "8", "9">>[d + 1]

\* str(n) for an int n >= 0
RECURSIVE DecStr(_)
DecStr(n) == IF n < 10 THEN <<Digit(n)>> ELSE DecStr(n \div 10) \o <<Digit(n % 10)>>

\* line 47: str(value)
Stringify(v) ==
    IF v.type = "int" THEN DecStr(v.num)
    ELSE IF v.type = "float" THEN DecStr(v.num \div 10) \o <<".">> \o <<Digit(v.num % 10)>>
    ELSE IF v.type = "bool" THEN
        (IF v.flag THEN <<"T","r","u","e">> ELSE <<"F","a","l","s","e">>)
    ELSE v.text

\* Position of key k in an ordered dict (a sequence of [name, value]), or 0
KeyIndex(d, k) ==
    IF \E i \in 1..Len(d) : d[i].name = k
    THEN CHOOSE i \in 1..Len(d) : d[i].name = k
    ELSE 0

\* A variant of DictSet: a key the dict already holds keeps its value.
DictSetKeep(d, k, v) ==
    IF KeyIndex(d, k) = 0 THEN Append(d, [name |-> k, value |-> v]) ELSE d

\* d[k] = v on an ordered dict: a key it holds keeps its place
DictSet(d, k, v) ==
    IF KeyIndex(d, k) = 0
    THEN Append(d, [name |-> k, value |-> v])
    ELSE [d EXCEPT ![KeyIndex(d, k)].value = v]

\* lines 44, 46: ret.update(items), items a dict or a tuple of pairs
RECURSIVE DictUpdate(_, _)
DictUpdate(d, items) ==
    IF items = <<>> THEN d
    ELSE DictUpdate(DictSet(d, Head(items).name, Head(items).value), Tail(items))

OptPair(n, v) == [name |-> n, value |-> v]
OptPairs ==
    {OptPair("temperature", FloatV(7)), OptPair("temperature", IntV(1)),
     OptPair("max_tokens", IntV(12)), OptPair("max_tokens", IntV(205)),
     OptPair("stream", BoolV(TRUE)), OptPair("stream", StrV(<<"n", "o">>))}

PairSeqs == UNION {[1..k -> OptPairs] : k \in 0..MaxOpts}
DistinctNames(ps) == \A i, j \in 1..Len(ps) : i # j => ps[i].name # ps[j].name

\* self.options: None or a dict
OptionsFields ==
    {[none |-> TRUE, items |-> <<>>]} \cup
        {[none |-> FALSE, items |-> ps] : ps \in {qs \in PairSeqs : DistinctNames(qs)}}

\* the argument options, when the caller passes one: None or a tuple of pairs
OptionsArgs ==
    {[none |-> TRUE, items |-> <<>>]} \cup
        {[none |-> FALSE, items |-> ps] : ps \in PairSeqs}

\* evaluate_options has been called with an argument; none of its body has run.
OptInit ==
    /\ tplOptions \in OptionsFields
    /\ optArg \in OptionsArgs
    /\ optRet = <<>>
    /\ opc = "called"

\* Lines 42-47: the whole of evaluate_options.
EvaluateOptions ==
    /\ opc = "called"
    /\ LET ret0 == <<>>
           ret1 == IF ~tplOptions.none /\ tplOptions.items # <<>>
                   THEN DictUpdate(ret0, tplOptions.items) ELSE ret0
           ret2 == IF ~optArg.none /\ optArg.items # <<>>
                   THEN DictUpdate(ret1, optArg.items) ELSE ret1
       IN  optRet' = [i \in 1..Len(ret2) |->
                        [name |-> ret2[i].name, text |-> Stringify(ret2[i].value)]]
    /\ opc' = "returned"
    /\ UNCHANGED <<tplOptions, optArg>>
    /\ UNCHANGED <<genVars, tplVars, histVars>>

----------------------------------------------------------------------------
(* cli.py: the prompt command, get_history and log. *)

MaxRows == 3

\* A chat id: None (NULL in the table) or an integer
NullId == [null |-> TRUE, id |-> 0]
Id(n) == [null |-> FALSE, id |-> n]

\* A message of the chat completion request
Message(role, content) == [role |-> role, content |-> content]

\* Line 85: entry.get("system"); line 90: if system
HasSystem(system) == ~system.none /\ system.val # <<>>

\* A variant of OrderById: descending ids.
RECURSIVE OrderByIdDesc(_)
OrderByIdDesc(rows) ==
    IF rows = <<>> THEN <<>>
    ELSE LET m == CHOOSE i \in 1..Len(rows) :
                    \A j \in 1..Len(rows) : rows[i].id >= rows[j].id
         IN  <<rows[m]>> \o
             OrderByIdDesc(SubSeq(rows, 1, m - 1) \o SubSeq(rows, m + 1, Len(rows)))

\* Line 411: order_by="id"
RECURSIVE OrderById(_)
OrderById(rows) ==
    IF rows = <<>> THEN <<>>
    ELSE LET m == CHOOSE i \in 1..Len(rows) :
                    \A j \in 1..Len(rows) : rows[i].id <= rows[j].id
         IN  <<rows[m]>> \o
             OrderById(SubSeq(rows, 1, m - 1) \o SubSeq(rows, m + 1, Len(rows)))

\* Lines 410-412: rows_where("id = ? or chat_id = ?", [c, c], order_by="id")
RowsWhere(cid) ==
    OrderById(SelectSeq(log, LAMBDA row : row.id = cid \/ row.chat_id = Id(cid)))

\* Line 405: rows_where(order_by="-id", limit=1)
LastRow == CHOOSE row \in {log[i] : i \in 1..Len(log)} :
                \A i \in 1..Len(log) : row.id >= log[i].id

\* A variant of ChatOrId: the row's own id, whatever its chat_id.
ChatOrIdOwn(row) == row.id

\* Line 407: last_row[0].get("chat_id") or last_row[0].get("id")
ChatOrId(row) ==
    IF row.chat_id.null \/ row.chat_id.id = 0 THEN row.id ELSE row.chat_id.id

\* The argument of get_history: None, -1 or a chat id
NoChat == [none |-> TRUE, val |-> 0]
Chat(n) == [none |-> FALSE, val |-> n]

\* Lines 393-413 once log.db is known to exist: (chat_id, rows)
GetHistory(arg) ==
    IF arg.none THEN [chat |-> NullId, rows |-> <<>>]
    ELSE IF arg.val = -1
    THEN IF log # <<>>
         THEN [chat |-> Id(ChatOrId(LastRow)), rows |-> RowsWhere(ChatOrId(LastRow))]
         ELSE [chat |-> NullId, rows |-> <<>>]
    ELSE [chat |-> Id(arg.val), rows |-> RowsWhere(arg.val)]

\* Lines 83-88: the messages of the entries of history, entry by entry
RECURSIVE Replay(_)
Replay(rows) ==
    IF rows = <<>> THEN <<>>
    ELSE (IF HasSystem(Head(rows).system)
          THEN <<Message("system", Head(rows).system.val)>> ELSE <<>>)
         \o <<Message("user", Head(rows).prompt),
              Message("assistant", Head(rows).response)>>
         \o Replay(Tail(rows))

\* Lines 90-92
NewMessages(system, prompt) ==
    (IF HasSystem(system) THEN <<Message("system", system.val)>> ELSE <<>>)
    \o <<Message("user", prompt)>>

\* Lines 362-376: the row log inserts; the table numbers its rows 1, 2, ...
NewRow(system, prompt, response, chat_id) ==
    [id |-> Len(log) + 1, chat_id |-> chat_id, system |-> system,
     prompt |-> prompt, response |-> response]

\* The --system text and the prompt text of a run
RunTexts ==
    {[system |-> NoneVal, prompt |-> <<"q">>],
     [system |-> Some(<<"S">>), prompt |-> <<"w">>]}
Responses == {<<"r">>}
ChatIds == {1, 2}

RunRecord(system, prompt, no_log, status) ==
    [system |-> system, prompt |-> prompt, no_log |-> no_log, status |-> status]
NoRequest == RunRecord(NoneVal, <<>>, FALSE, "none")

\* Lines 59-128 without a template and with a model given: one run of the
\* prompt command.  arg is what it passes to get_history; failed says that
\* the completion request raised an OpenAIError.
PromptCommand(arg, system, prompt, no_log, failed, response) ==
    /\ (db /\ ~no_log /\ ~failed) => Len(log) < MaxRows
    /\ db' = db
    /\ IF ~arg.none /\ ~db
       THEN \* lines 397-400: get_history raises ClickException
            /\ req' = RunRecord(system, prompt, no_log, "no_db")
            /\ messages' = <<>>
            /\ history' = <<>>
            /\ chat' = NullId
            /\ log' = log
       ELSE LET h == GetHistory(arg)
            IN  /\ chat' = h.chat
                /\ history' = h.rows
                /\ messages' = Replay(h.rows) \o NewMessages(system, prompt)
                /\ req' = RunRecord(system, prompt, no_log,
                                  IF failed THEN "api_error" ELSE "ok")
                /\ log' = IF failed \/ no_log \/ ~db
                          THEN log
                          ELSE Append(log, NewRow(system, prompt, response, h.chat))
    /\ UNCHANGED <<genVars, tplVars, optVars>>

\* llm "prompt": neither --continue nor --chat
FreshRun ==
    \E text \in RunTexts, no_log \in BOOLEAN,
       failed \in BOOLEAN, response \in Responses :
        /\ kind' = "fresh"
        /\ PromptCommand(NoChat, text.system, text.prompt, no_log, failed, response)

\* llm --continue "prompt"
ContinueRun ==
    \E text \in RunTexts, no_log \in BOOLEAN,
       failed \in BOOLEAN, response \in Responses :
        /\ kind' = "continue"
        /\ PromptCommand(Chat(-1), text.system, text.prompt, no_log, failed, response)

\* llm --chat c "prompt"
ChatRun ==
    \E cid \in ChatIds, text \in RunTexts, no_log \in BOOLEAN,
       failed \in BOOLEAN, response \in Responses :
        /\ kind' = "chat"
        /\ PromptCommand(Chat(cid), text.system, text.prompt, no_log, failed, response)

\* No prompt command has run; the log table is empty or missing.
HistInit ==
    /\ log = <<>>
    /\ history = <<>>
    /\ messages = <<>>
    /\ chat = NullId
    /\ kind = "none"
    /\ db \in BOOLEAN
    /\ req = NoRequest

\* No call of evaluate_options is under way.
OptIdle ==
    /\ tplOptions = [none |-> TRUE, items |-> <<>>]
    /\ optArg = [none |-> TRUE, items |-> <<>>]
    /\ optRet = <<>>
    /\ opc = "idle"

\* No prompt command has run; the log table is empty.
HistIdle ==
    /\ log = <<>>
    /\ history = <<>>
    /\ messages = <<>>
    /\ chat = NullId
    /\ kind = "none"
    /\ db = TRUE
    /\ req = NoRequest

Init == GenInit /\ TplIdle /\ OptIdle /\ HistIdle

Next ==
    \/ Request
    \/ Close
    \/ SourceRaises
    \/ Lookahead
    \/ YieldP
    \/ YieldSep
    \/ YieldBuffer
    \/ Pass

Spec == Init /\ [][Next]_vars

\* A run in which the source neither fails nor delivers what the generator
\* cannot read (objects come with a preproc), and the consumer asks for
\* segment after segment.
LiveInit ==
    /\ Init
    /\ preproc \/ AllStr(r)
    /\ store0 = <<>>

LiveNext ==
    \/ Request
    \/ Lookahead
    \/ YieldP
    \/ YieldSep
    \/ YieldBuffer
    \/ Pass

LiveSpec == LiveInit /\ [][LiveNext]_vars /\ WF_vars(LiveNext)

\* Calls of Template.evaluate.
TplSpecInit == GenIdle /\ TplInit /\ OptIdle /\ HistIdle

TplNext ==
    \/ EvalBuildParams
    \/ EvalSystemOnly
    \/ EvalPrompt
    \/ EvalSystem

TplSpec == TplSpecInit /\ [][TplNext]_vars

\* Calls of Template.evaluate_options.
OptSpecInit == GenIdle /\ TplIdle /\ OptInit /\ HistIdle

OptNext == EvaluateOptions

OptSpec == OptSpecInit /\ [][OptNext]_vars

\* Runs of the prompt command.
HistSpecInit == GenIdle /\ TplIdle /\ OptIdle /\ HistInit

HistNext == FreshRun \/ ContinueRun \/ ChatRun

HistSpec == HistSpecInit /\ [][HistNext]_vars

\* Runs of the prompt command without --chat.
ContNext == FreshRun \/ ContinueRun

ContSpec == HistSpecInit /\ [][ContNext]_vars

----------------------------------------------------------------------------
(* What the claims speak of. *)

\* ''.join of the text of a sequence of values
RECURSIVE JoinText(_)
JoinText(vs) == IF vs = <<>> THEN <<>> ELSE Head(vs).val \o JoinText(Tail(vs))

\* J: the text of the whole stream
J == JoinText(r)

\* The text of the first k chunks
JoinedUpTo(k) == JoinText(SubSeq(r, 1, k))

\* The separator the documentation describes: a single space unless the
\* last character of p is whitespace.
SepFor(q) == IF q # <<>> /\ q[Len(q)] \in Whitespace THEN <<>> ELSE <<" ">>

\* After k chunks the stream can no longer start with p.
DefiniteNonMatchAt(k) ==
    LET b == JoinedUpTo(k)
    IN  /\ ~StartsWith(b, p)
        /\ ~StartsWith(p, Take(b, Len(p) + 1))

\* After k chunks the outcome is still open.
UndecidedAt(k) ==
    LET b == JoinedUpTo(k)
    IN  /\ Len(b) < Len(p)
        /\ StartsWith(p, b)

\* C1: once the generator is exhausted, for a non-empty prefill the yielded
\* segments concatenate to J when J starts with p, and to p + sep + J
\* otherwise; the result is a function of p and J alone.
C1_RoundTrip ==
    (pc = "done" /\ p # <<>>) =>
        /\ AllStr(out)
        /\ JoinText(out) = IF StartsWith(J, p) THEN J ELSE p \o SepFor(p) \o J

\* C1 witness: a prefill that matches only across a chunk boundary, with
\* text after it, run to exhaustion.
C1_Witness ==
    /\ pc = "done"
    /\ p # <<>>
    /\ StartsWith(J, p)
    /\ Len(r) >= 2
    /\ Len(r[1].val) < Len(p)
    /\ Len(J) > Len(p)

\* C2 as stated: scenario A concatenates to "The answer is 42." with one
\* space.
C2_Original ==
    (p = ScenarioA.p /\ r = ScenarioA.r /\ pc = "done") =>
        JoinText(out) =
            <<"T","h","e"," ","a","n","s","w","e","r"," ","i","s"," ","4","2",".">>

\* C2 amended: scenario A concatenates to "The answer is  42.": the
\* separator space and then the chunk's own leading space.
C2_ScenarioA ==
    (p = ScenarioA.p /\ r = ScenarioA.r /\ pc = "done") =>
        /\ out = <<Str(TheAnswerIs), Str(<<" ">>), Str(Space42)>>
        /\ JoinText(out) =
            <<"T","h","e"," ","a","n","s","w","e","r"," ","i","s"," "," ","4","2",".">>

C2_Witness == p = ScenarioA.p /\ r = ScenarioA.r /\ pc = "done"

\* C3: in scenario C the generator is undecided after the first chunk,
\* yields its first segment with exactly two chunks pulled, and its
\* segments concatenate to "abcdefghi".
C3_ScenarioC ==
    (p = ScenarioC.p /\ r = ScenarioC.r) =>
        /\ (pos = 1 /\ pc # "failed") => (pc = "lookahead" /\ out = <<>> /\ ~has_pre)
        /\ out # <<>> => (has_pre /\ pos >= 2)
        /\ Len(out) = 1 => pos = 2
        /\ pc = "done" =>
            JoinText(out) = <<"a","b","c","d","e","f","g","h","i">>

C3_Witness ==
    /\ p = ScenarioC.p /\ r = ScenarioC.r
    /\ pc = "done"
    /\ out = <<Str(Abcdef), Str(<<>>), Str(Ghi)>>

\* C4: once the text pulled so far is a definite non-match, no further
\* chunk is pulled before p, the separator (unless p ends in whitespace)
\* and the whole accumulated buffer have been yielded; scenario B pulls one
\* chunk before its first segment and concatenates to "Hello Goodbye world".
C4_DefiniteNonMatch ==
    /\ \A k \in 1..pos :
        (DefiniteNonMatchAt(k) /\ \A j \in 1..(k - 1) : ~DefiniteNonMatchAt(j)) =>
            LET head == <<Str(p)>>
                            \o (IF SepFor(p) = <<>> THEN <<>> ELSE <<Str(SepFor(p))>>)
                            \o <<Str(JoinedUpTo(k))>>
            IN  /\ pc # "lookahead"
                /\ ~has_pre
                /\ Len(out) <= Len(head) => (pos = k /\ out = Take(head, Len(out)))
                /\ Len(out) > Len(head) => Take(out, Len(head)) = head
    /\ (p = ScenarioB.p /\ r = ScenarioB.r) =>
        /\ Len(out) = 1 => pos = 1
        /\ pc = "done" =>
            JoinText(out) = <<"H","e","l","l","o"," ","G","o","o","d","b","y","e",
                              " ","w","o","r","l","d">>

\* C4 witness: a definite non-match found on the second chunk, with a
\* third chunk left, after the remainder segment has been yielded.
C4_Witness ==
    /\ Len(r) = 3
    /\ pos = 2
    /\ DefiniteNonMatchAt(2)
    /\ ~DefiniteNonMatchAt(1)
    /\ pc = "pass"
    /\ Len(out) = 3

\* C5 as stated: with an empty prefill the prefill counts as present, no
\* separator segment is yielded, and the segments concatenate to the
\* concatenation of the chunks, for every stream including the empty one.
C5_EmptyPrefill ==
    (p = <<>> /\ pc = "done") =>
        /\ has_pre
        /\ Len(out) = 2 + (IF r = <<>> THEN 0 ELSE Len(r) - 1)
        /\ JoinText(out) = J

\* C6: a supplied store holds what it held at the call followed by exactly
\* the chunks pulled so far, as the source delivered them, in order; at
\* exhaustion that is the whole chunk sequence.  A store that is not
\* supplied is not touched.
C6_StoreRecords ==
    /\ store.given => store.items = store0 \o SubSeq(r, 1, pos)
    /\ ~store.given => store.items = <<>>
    /\ (store.given /\ pc = "done") => store.items = store0 \o r

\* C6 witness: a store that already held an element, a stream of objects
\* decoded by preproc, run to exhaustion.
C6_Witness ==
    /\ store.given
    /\ store0 = Earlier
    /\ pc = "done"
    /\ Len(r) >= 2
    /\ ~r[1].isstr
    /\ has_pre
    /\ Len(store.items) = 1 + Len(r)

\* The chunks pulled by a step, as the generator hands them on.
PulledInStep == [i \in 1..(pos' - pos) |-> Decoded(r[pos + i])]

C7_State ==
    /\ pc = "created" => (pos = 0 /\ out = <<>>)
    /\ (pc = "lookahead" /\ pos > 0) => UndecidedAt(pos)
    /\ pc = "closed" => ctl = "consumer"

C7_Step ==
    /\ pos' # pos => (ctl = "generator" /\ pos' > pos)
    /\ pc \in {"yield_p", "sep", "rest"} => pos' = pos
    /\ (pc = "pass" /\ pos' # pos) =>
        /\ pos' = pos + 1
        /\ out' = Append(out, Decoded(r[pos + 1]))
        /\ ctl' = "consumer"
    /\ (pc = "pass" /\ ctl = "generator" /\ pos < Len(r) /\ srcErr' = NoError) =>
        pos' = pos + 1
    /\ pc = "closed" => UNCHANGED vars

\* C7: chunks are pulled only while the generator runs on a consumer's
\* request: none before the first request; during the first request only
\* while the outcome is undecided; none while p, the separator and the
\* remainder are delivered; then one per request, yielded on that request;
\* none once the consumer has stopped.
C7_PullDriven == []C7_State /\ [][C7_Step]_vars

\* C7 witness: the consumer stopped after the remainder segment, with
\* chunks left in the source.
C7_Witness ==
    /\ pc = "closed"
    /\ Len(out) >= 2
    /\ pos < Len(r)
    /\ pos >= 1

C8_State ==
    /\ srcErr # NoError => (err = srcErr /\ pc = "failed" /\ ctl = "consumer")
    /\ pc = "failed" => store.items = (IF store.given THEN store0 \o SubSeq(r, 1, pos) ELSE <<>>)
    /\ (err # NoError /\ AllStr(r)) => (srcErr # NoError /\ err = srcErr)
    /\ err # NoError => pc = "failed"

C8_Step ==
    /\ Len(out) <= Len(out') /\ SubSeq(out', 1, Len(out)) = out
    /\ (srcErr = NoError /\ srcErr' # NoError) =>
        (out' = out /\ store' = store /\ pos' = pos /\ err' = srcErr')
    /\ pc = "failed" => UNCHANGED vars

\* C8: a failure of the chunk source reaches the consumer unchanged on the
\* request that pulled; nothing is yielded afterwards; what was yielded
\* stays as it was; the store holds the chunks pulled before the failure;
\* on a stream of str chunks the generator raises nothing of its own.
C8_SourceFailure == []C8_State /\ [][C8_Step]_vars

\* C8 witness: the source failed in the pass-through loop, after segments
\* were yielded and chunks recorded.
C8_Witness ==
    /\ srcErr # NoError
    /\ err = srcErr
    /\ Len(out) >= 3
    /\ store.given
    /\ pos >= 2
    /\ pos < Len(r)

C9_State ==
    pc = "done" =>
        /\ pos = Len(r)
        /\ Len(out) <= Len(r) + 3
        /\ store.given => store.items = store0 \o r

\* C9: with a source that ends and a consumer that keeps asking, the
\* generator is exhausted after finitely many segments, and by then the
\* iterator has delivered every chunk, one at a time and each once.
C9_Terminates ==
    /\ <>(pc = "done")
    /\ []C9_State
    /\ [][pos' = pos \/ pos' = pos + 1]_vars

\* C9 witness: exhaustion after a lookahead of two chunks and a third chunk
\* passed through.
C9_Witness ==
    /\ pc = "done"
    /\ Len(r) = 3
    /\ UndecidedAt(1)
    /\ ~UndecidedAt(2)
    /\ Len(out) >= 3

\* The names a pattern refers to with $name
RefNames(text) ==
    {text.toks[i].name : i \in {j \in 1..Len(text.toks) : text.toks[j].kind = "named"}}

OnlyNamed(text) ==
    \A i \in 1..Len(text.toks) : text.toks[i].kind \in {"lit", "named"}

\* C10 as stated (for patterns whose placeholders are all of the $name
\* form): when a name referred to by the prompt pattern or by the system
\* pattern is not in the effective parameter set, evaluate raises
\* MissingVariables naming every such name of both patterns, with neither
\* pattern substituted.
C10_AllMissingReported ==
    LET missing == (RefNames(tpl.prompt) \cup RefNames(tpl.system)) \ DOMAIN params
    IN  (/\ tpc \in {"returned", "raised"}
         /\ OnlyNamed(tpl.prompt) /\ OnlyNamed(tpl.system)
         /\ missing # {}) =>
            /\ tpc = "raised"
            /\ tplErr.type = "MissingVariables"
            /\ {tplErr.names[i] : i \in 1..Len(tplErr.names)} = missing
            /\ result = [prompt |-> NoneVal, system |-> NoneVal]

\* C11 as stated: the caller's params mapping holds the same keys and
\* values after evaluate returns or raises as before the call.
C11_NoSideEffects ==
    tpc \in {"returned", "raised"} => argParams.d = params0

\* The value the documentation gives a name in the effective parameter set.
ExpectedValue(n) ==
    IF n = "input" THEN input
    ELSE IF n \in DOMAIN params0 THEN params0[n]
    ELSE tpl.defaults[n]

\* C12: in the effective parameter set 'input' is the raw input, any other
\* name the caller supplied has the caller's value, and a name only the
\* defaults declare has its default; a pattern that is one $name is
\* substituted by that value.
C12_Precedence ==
    tpc \in {"params", "prompt_done", "returned", "raised"} =>
        /\ DOMAIN params = {"input"} \cup DOMAIN params0 \cup DOMAIN tpl.defaults
        /\ \A n \in DOMAIN params : params[n] = ExpectedValue(n)
        /\ (/\ tpc \in {"prompt_done", "returned"}
            /\ Len(tpl.prompt.toks) = 1
            /\ tpl.prompt.toks[1].kind = "named") =>
                result.prompt = Some(ExpectedValue(tpl.prompt.toks[1].name))

\* C12 witness: the caller's foo and a default for foo, and a prompt $foo
\* that came out as the caller's value.
C12_Witness ==
    /\ tpc = "returned"
    /\ "foo" \in DOMAIN params0
    /\ "foo" \in DOMAIN tpl.defaults
    /\ tpl.prompt = Pattern(<<Named("foo")>>)
    /\ result.prompt = Some(<<"F">>)

\* The characters of a pattern as the template holds it.
NameChars(n) ==
    IF n = "input" THEN <<"i","n","p","u","t">>
    ELSE IF n = "foo" THEN <<"f","o","o">>
    ELSE <<"b","a","r">>

RECURSIVE RawText(_)
RawText(toks) ==
    IF toks = <<>> THEN <<>>
    ELSE LET t == Head(toks)
         IN  (IF t.kind = "lit" THEN t.text
              ELSE IF t.kind = "escaped" THEN <<"$", "$">>
              ELSE IF t.kind = "named" THEN <<"$">> \o NameChars(t.name)
              ELSE <<"$", "{">> \o NameChars(t.name) \o <<"}">>) \o RawText(Tail(toks))

NoPlaceholders(text) ==
    \A i \in 1..Len(text.toks) : text.toks[i].kind \in {"lit", "escaped"}

OnlyLit(text) ==
    \A i \in 1..Len(text.toks) : text.toks[i].kind = "lit"

\* The template has no prompt pattern: none at all, or an empty one
NoPromptPattern == tpl.prompt.none \/ tpl.prompt.toks = <<>>

AllRefNames(text) ==
    {text.toks[i].name :
        i \in {j \in 1..Len(text.toks) : text.toks[j].kind \in {"named", "braced"}}}

\* C14 as stated: when the prompt pattern refers to a name other than
\* 'input' that neither the caller's params nor the defaults hold, evaluate
\* raises MissingVariables naming it and returns nothing.
C14_UnboundPromptVar ==
    (tpc \in {"returned", "raised"} /\ Truthy(tpl.prompt)) =>
        \A n \in AllRefNames(tpl.prompt) \ {"input"} :
            n \notin (DOMAIN params0 \cup DOMAIN tpl.defaults) =>
                /\ tpc = "raised"
                /\ tplErr.type = "MissingVariables"
                /\ \E i \in 1..Len(tplErr.names) : tplErr.names[i] = n

\* The names of a sequence of pairs, each once, in order of first occurrence
RECURSIVE NamesInOrder(_)
NamesInOrder(ps) ==
    IF ps = <<>> THEN <<>>
    ELSE LET front == NamesInOrder(SubSeq(ps, 1, Len(ps) - 1))
             n == ps[Len(ps)].name
         IN  IF \E i \in 1..Len(front) : front[i] = n THEN front ELSE Append(front, n)

NameSet(ps) == {ps[i].name : i \in 1..Len(ps)}

\* The value the merge is to choose for a name
ChosenValue(n) ==
    IF n \in NameSet(optArg.items)
    THEN optArg.items[CHOOSE i \in 1..Len(optArg.items) :
            /\ optArg.items[i].name = n
            /\ \A j \in (i + 1)..Len(optArg.items) : optArg.items[j].name # n].value
    ELSE tplOptions.items[CHOOSE i \in 1..Len(tplOptions.items) :
            tplOptions.items[i].name = n].value

\* The printed form of each kind of option value
Printed(v) ==
    IF v = IntV(1) THEN <<"1">>
    ELSE IF v = IntV(12) THEN <<"1", "2">>
    ELSE IF v = IntV(205) THEN <<"2", "0", "5">>
    ELSE IF v = FloatV(7) THEN <<"0", ".", "7">>
    ELSE IF v = BoolV(TRUE) THEN <<"T", "r", "u", "e">>
    ELSE v.text

C15_State ==
    opc = "returned" =>
        LET declared == NamesInOrder(tplOptions.items)
            extra == SelectSeq(NamesInOrder(optArg.items),
                               LAMBDA n : n \notin NameSet(tplOptions.items))
            order == declared \o extra
        IN  /\ Len(optRet) = Len(order)
            /\ \A i \in 1..Len(optRet) :
                /\ optRet[i].name = order[i]
                /\ optRet[i].text = Printed(ChosenValue(order[i]))

EntryLen(e) == IF e.system.none \/ e.system.val = <<>> THEN 2 ELSE 3

RECURSIVE Offset(_, _)
Offset(rows, i) == IF i = 1 THEN 0 ELSE Offset(rows, i - 1) + EntryLen(rows[i - 1])

EntryAt(rows, msgs, i) ==
    LET o == Offset(rows, i)
        e == rows[i]
    IN  /\ Len(msgs) >= o + EntryLen(e)
        /\ EntryLen(e) = 3 => msgs[o + 1] = Message("system", e.system.val)
        /\ msgs[o + EntryLen(e) - 1] = Message("user", e.prompt)
        /\ msgs[o + EntryLen(e)] = Message("assistant", e.response)

C16_Step ==
    (kind' \in {"continue", "chat"} /\ ~chat'.null) =>
        LET cid == chat'.id
            mine == {i \in 1..Len(log) : log[i].id = cid \/ log[i].chat_id = Id(cid)}
            n == Len(history')
            replayed == Offset(history', n + 1)
            sys == req'.system
        IN  /\ n = Cardinality(mine)
            /\ {history'[i] : i \in 1..n} = {log[i] : i \in mine}
            /\ \A i, j \in 1..n : i < j => history'[i].id < history'[j].id
            /\ \A i \in 1..n : EntryAt(history', messages', i)
            /\ Len(messages') = replayed + (IF sys.none THEN 1 ELSE 2)
            /\ ~sys.none => messages'[replayed + 1] = Message("system", sys.val)
            /\ messages'[Len(messages')] = Message("user", req'.prompt)

\* C16: a prompt command that continues conversation c replays exactly the
\* log entries with id = c or chat_id = c, in strictly ascending id order,
\* each as system (if it has one), user prompt, assistant response; the new
\* system message (if any) and then the new user prompt follow all of them,
\* the new user prompt last.
C16_ReplayOrder == [][C16_Step]_vars

\* C16 witness: a continued conversation of two entries that are not
\* neighbours in the log, the second with a system text, and a new system
\* text.
C16_Witness ==
    /\ kind \in {"continue", "chat"}
    /\ Len(history) = 2
    /\ history[1].id = 1
    /\ history[2].id = 3
    /\ history[1].prompt # history[2].prompt
    /\ history[1].system.none
    /\ ~history[2].system.none
    /\ ~req.system.none
    /\ Len(messages) = 7

\* The root of the conversation the most recently logged row belongs to
RootOf(row) == IF row.chat_id.null THEN row.id ELSE row.chat_id.id

C20_State ==
    \A i \in 1..Len(log) :
        \/ log[i].chat_id.null
        \/ \E j \in 1..Len(log) :
            /\ log[j].id = log[i].chat_id.id
            /\ log[j].id < log[i].id
            /\ log[j].chat_id.null

C20_Step ==
    (kind' = "continue" /\ log # <<>>) =>
        LET root == RootOf(log[Len(log)])
            conversation == SelectSeq(log, LAMBDA row :
                                \/ row.id = root /\ row.chat_id.null
                                \/ row.chat_id = Id(root))
        IN  /\ history' = conversation
            /\ \E i \in 1..Len(history') : history'[i] = log[Len(log)]
            /\ (~req'.no_log /\ req'.status = "ok") =>
                    /\ Len(log') = Len(log) + 1
                    /\ SubSeq(log', 1, Len(log)) = log
                    /\ log'[Len(log')].chat_id = Id(root)
                    /\ log'[Len(log')].prompt = req'.prompt
            /\ (req'.no_log \/ req'.status # "ok") => log' = log

\* C20: with fresh and --continue runs only, from an empty log, every
\* logged row's chat_id is null or the id of an earlier row whose chat_id is
\* null; a --continue run replays the whole conversation of the most
\* recently logged row, root and followers, and logs its new row under that
\* root's id.
C20_Grouping == []C20_State /\ [][C20_Step]_vars

\* C20 witness: a --continue run that continued a conversation already
\* continued once, and logged its row under the root.
C20_Witness ==
    /\ kind = "continue"
    /\ req.status = "ok"
    /\ ~req.no_log
    /\ Len(log) = 3
    /\ log[1].chat_id.null
    /\ log[2].chat_id = Id(1)
    /\ log[3].chat_id = Id(1)
    /\ Len(history) = 2

C17_State ==
    (pc = "lookahead" /\ pos > 0) =>
        /\ out = <<>>
        /\ buffer = JoinedUpTo(pos)
        /\ Len(buffer) < Len(p)
        /\ StartsWith(p, buffer)

C17_Step ==
    /\ (out = <<>> /\ pos >= 1 /\ pos' # pos) =>
        /\ pos' = pos + 1
        /\ Len(buffer) < Len(p)
        /\ StartsWith(p, buffer)
    /\ (out = <<>> /\ pos' = pos + 1 /\ pc' # "failed"
            /\ Len(JoinedUpTo(pos')) >= Len(p)) =>
        /\ pc' = "yield_p"
        /\ has_pre' = StartsWith(JoinedUpTo(pos'), p)
        /\ ~has_pre' => ~StartsWith(p, JoinedUpTo(pos')) \/ JoinedUpTo(pos') = p
    /\ out # <<>> =>
        /\ buffer' = buffer
        /\ has_pre' = has_pre
        /\ pc' # "lookahead"
        /\ pos' # pos =>
            /\ pos' = pos + 1
            /\ out' = Append(out, Decoded(r[pos + 1]))
            /\ ctl = "generator" /\ ctl' = "consumer"

\* C17: before the first segment a chunk beyond the first is pulled only
\* while the buffer is strictly shorter than p and a prefix of p; the chunk
\* that brings the buffer to len(p) characters or more decides the outcome;
\* after the first segment nothing is accumulated and every chunk pulled is
\* yielded in the same request.
C17_BoundedLookahead == []C17_State /\ [][C17_Step]_vars

\* C17 witness: undecided after one chunk, decided by the second, and the
\* third passed through.
C17_Witness ==
    /\ Len(r) = 3
    /\ UndecidedAt(1)
    /\ ~UndecidedAt(2)
    /\ pc = "pass"
    /\ pos = 3
    /\ ctl = "consumer"
    /\ out[Len(out)] = Decoded(r[3])

\* C18: when the whole stream is a proper prefix of p, a run of the
\* generator, however it ends, has yielded the first ones of: p, a single
\* space unless p ends in whitespace, the text of the stream; it has pulled
\* every chunk before its first segment, and an exhausted generator has
\* yielded all three and nothing else.
C18_ExhaustedUndecided ==
    LET text == J
        segments == <<Str(p)>>
                        \o (IF p[Len(p)] \in Whitespace THEN <<>> ELSE <<Str(<<" ">>)>>)
                        \o <<Str(text)>>
    IN  (/\ Finished
         /\ Len(text) < Len(p)
         /\ StartsWith(p, text)
         /\ preproc \/ AllStr(r)) =>
            /\ out # <<>> => pos = Len(r)
            /\ Len(out) <= Len(segments)
            /\ out = SubSeq(segments, 1, Len(out))
            /\ pc = "done" => out = segments

\* C18 witness: p ends in a space, the stream of two chunks gives its first
\* character only.
C18_Witness ==
    /\ pc = "done"
    /\ p = <<"a", " ">>
    /\ J = <<"a">>
    /\ Len(r) >= 2
    /\ out = <<Str(p), Str(J)>>

\* The number of chunks pulled when the outcome is decided: the first k
\* from which on the outcome is no longer open, or all of them
RECURSIVE Decision(_, _)
Decision(k, text) ==
    IF k = Len(r) THEN [at |-> k, text |-> text]
    ELSE LET longer == text \o r[k + 1].val
         IN  IF Len(longer) < Len(p) /\ StartsWith(p, longer)
             THEN Decision(k + 1, longer)
             ELSE [at |-> k + 1, text |-> longer]

DecisionAt == Decision(0, <<>>).at

\* C19: a run of the generator, however it ends, has yielded the first
\* ones of: p, at most one separator " ", one remainder segment with the
\* buffered text (what follows p when the text pulled starts with p, all of
\* it otherwise), and the text of each chunk pulled after the decision, in
\* order; an exhausted generator has yielded all of them.
C19_SegmentSequence ==
    LET decision == Decision(0, <<>>)
        k == decision.at
        b == decision.text
        remainder == IF k >= 1 /\ StartsWith(b, p) THEN SubSeq(b, Len(p) + 1, Len(b)) ELSE b
        body == <<Str(remainder)>> \o [i \in 1..(Len(r) - k) |-> Str(r[k + i].val)]
        Fits(segs) ==
            /\ Len(segs) <= Len(body)
            /\ segs = SubSeq(body, 1, Len(segs))
            /\ pc = "done" => segs = body
    IN  IF out = <<>> THEN pc # "done"
        ELSE Finished =>
             /\ out[1] = Str(p)
             /\ \/ Fits(Tail(out))
                \/ /\ Len(out) >= 2
                   /\ out[2] = Str(<<" ">>)
                   /\ Fits(Tail(Tail(out)))

\* C19 witness: objects decoded by preproc, the prefill matched exactly by
\* the first two chunks, so that the remainder segment is empty.
C19_Witness ==
    /\ pc = "done"
    /\ preproc
    /\ Len(r) = 3
    /\ ~r[1].isstr
    /\ DecisionAt = 2
    /\ has_pre
    /\ out = <<Str(p), Str(<<>>), Str(r[3].val)>>

====
